---- MODULE Spec2Model ----
(***************************************************************************)
(* conda_smithy/anaconda_token_rotation.py as a state machine.             *)
(*                                                                         *)
(* One call of rotate_anaconda_token is followed from its arguments to its *)
(* return or raise.  The orchestrator's position is pc; every adapter is   *)
(* followed request by request, the code between two requests being part   *)
(* of the step that issued the first.  The CI providers are the            *)
(* environment: each answers a request with a status code of Statuses and  *)
(* performs the request exactly when it answers with a status below 400.   *)
(* What a provider holds is unknown to the program until the adapter's     *)
(* first request, so it is chosen there.                                   *)
(***************************************************************************)
EXTENDS Integers, Sequences, FiniteSets, TLC

(* ------------------------------ bounds --------------------------------- *)
\* longest env-var listing travis answers with
MaxEnvVars == 2
\* most build definitions azure answers with
MaxDefinitions == 2

(* --------------------------- fixed values ------------------------------ *)
Providers == {"circle", "drone", "travis", "azure", "appveyor"}
\* the blocks of drone and circle in the order of the signature
Order_AsSignature == <<"drone", "circle", "travis", "azure", "appveyor">>

\* the order of the five `if <provider>:` blocks
Order == <<"circle", "drone", "travis", "azure", "appveyor">>

SecretName == "BINSTAR_TOKEN"
Names == {SecretName, "OTHER_VAR"}
\* the value imported from ci_register: the new secret
anaconda_token == "tok_new"
OldValue == "tok_old"

Users == {"alice"}
Projects == {"pkg-feedstock"}

HTTP_OK == 200
HTTP_CREATED == 201
\* what a provider may answer: both success conventions and a server error
Statuses == {HTTP_OK, HTTP_CREATED, 500}

\* stream objects: the two the caller had installed, and open(os.devnull)
StreamObjs == {"caller_stdout", "caller_stderr", "devnull"}

Range(s) == {s[i] : i \in 1..Len(s)}

\* t occurs in msg as a contiguous run of parts
Contains(msg, t) ==
    \E i \in 1..(Len(msg) + 1) :
        /\ i + Len(t) - 1 <= Len(msg)
        /\ SubSeq(msg, i, i + Len(t) - 1) = t

VARIABLES
    user, project, args, debug,        \* the call and os.environ
    imports,                           \* what the test imports will find
    pc,                                \* position in rotate_anaconda_token
    failed, err_msg,                   \* the locals of lines 43-44
    exc,                               \* the exception in flight
    cur,                               \* provider whose except block runs
    sys_stdout, sys_stderr,            \* sys.stdout, sys.stderr
    old_stdout, old_stderr,            \* saved by redirect_stdout/_stderr
    streams,                           \* text each stream object received
    result, raised,                    \* how the call ended
    invoked, completed, adapter_exc,   \* history of adapter invocations
    calls, r,                          \* requests issued, last status
    ev_id,                             \* the travis adapter's local
    circle_env, drone_secrets, travis_env_vars, azure_defs, appveyor_cfg,
    before                             \* provider contents when first seen

callVars == <<user, project, args, debug, imports>>
localVars == <<failed, err_msg>>
streamVars == <<sys_stdout, sys_stderr, old_stdout, old_stderr>>
endVars == <<result, raised>>
worldVars == <<circle_env, drone_secrets, travis_env_vars, azure_defs,
               appveyor_cfg, before>>
vars == <<callVars, pc, localVars, exc, cur, streamVars, streams, endVars,
          invoked, completed, adapter_exc, calls, r, ev_id, worldVars>>

(* ----------------------------- exceptions ------------------------------ *)
NoExc == [live |-> FALSE, type |-> "", text |-> <<>>, origin |-> ""]
Exc(type, text, origin) ==
    [live |-> TRUE, type |-> type, text |-> text, origin |-> origin]

\* an exception raised inside the adapter of provider p at step op
AdapterExc(type, p, op) == Exc(type, <<type, ": ", p, " ", op>>, p)

NoMsg == [none |-> TRUE, text |-> <<>>]
Msg(text) == [none |-> FALSE, text |-> text]
\* `if err_msg:`
Truthy(m) == ~m.none /\ m.text # <<>>

(* ------------------------- the call's arguments ------------------------ *)
\* defaults of the signature
DefaultFlag(p) == TRUE

Enabled(p) == IF args[p] = "omitted" THEN DefaultFlag(p) ELSE args[p] = "True"

\* `"DEBUG_ANACONDA_TOKENS" in os.environ`
DebugSet == debug

\* the anaconda token is defined and the other modules import ("ok"), the
\* token is not defined, or one of the imports of lines 38-39 fails
ImportOutcomes == {"ok", "no_token", "import_error"}

\* the caller passes every provider flag, or leaves them all to the defaults
ArgVectors == [Providers -> {"True", "False"}]
                  \cup {[p \in Providers |-> "omitted"]}

(* ----------------------------- messages -------------------------------- *)
\* "Failed to rotate token for %s/%s on <p>!" % (user, project)
FailMsg(u, pr, p) ==
    <<"Failed to rotate token for ", u, "/", pr, " on ", p, "!">>

\* the fallback of lines 133-140
GenericMsg(u, pr) ==
    <<"Rotating the feedstock token in proviers for ", u, "/", pr,
      " failed!", " Try the command locally with DEBUG_ANACONDA_TOKENS",
      " defined in the environment to investigate!">>

NoTokenMsg ==
    <<"You must have the anaconda token defined to do token rotation!">>

(* ------------------------------ streams -------------------------------- *)
\* a diagnostic stream that is left where it was
Fpe_NotRedirected(dbg, out) == IF dbg THEN out ELSE "caller_stderr"

\* lines 46-51: the targets handed to redirect_stdout and redirect_stderr
Fpo(dbg, out) == IF dbg THEN out ELSE "devnull"
Fpe(dbg, out) == IF dbg THEN out ELSE "devnull"

\* a write by the adapter of p to sys.stdout and one to sys.stderr: each
\* lands in whatever object is installed at that moment
Emit(p) ==
    [s \in StreamObjs |->
        streams[s]
            \cup (IF s = sys_stdout THEN {<<p, "stdout">>} ELSE {})
            \cup (IF s = sys_stderr THEN {<<p, "stderr">>} ELSE {})]

(* ------------------------------- Init ---------------------------------- *)
EmptyMap == [n \in {} |-> OldValue]
EmptyCfg == [k \in {} |-> EmptyMap]

\* nothing observed yet of any provider
NoneSeen ==
    [seen |-> {}, circle |-> EmptyMap, drone |-> EmptyMap, travis |-> <<>>,
     azure |-> <<>>, appveyor |-> EmptyCfg]

Init ==
    /\ user \in Users
    /\ project \in Projects
    /\ args \in ArgVectors
    /\ debug \in BOOLEAN
    /\ imports \in ImportOutcomes
    /\ pc = "precheck"
    /\ failed = FALSE
    /\ err_msg = NoMsg
    /\ exc = NoExc
    /\ cur = ""
    /\ sys_stdout = "caller_stdout"
    /\ sys_stderr = "caller_stderr"
    /\ old_stdout = ""
    /\ old_stderr = ""
    /\ streams = [s \in StreamObjs |-> {}]
    /\ result = "running"
    /\ raised = NoExc
    /\ invoked = <<>>
    /\ completed = {}
    /\ adapter_exc = NoExc
    /\ calls = <<>>
    /\ r = 0
    /\ ev_id = 0
    /\ circle_env = EmptyMap
    /\ drone_secrets = EmptyMap
    /\ travis_env_vars = <<>>
    /\ azure_defs = <<>>
    /\ appveyor_cfg = EmptyCfg
    /\ before = NoneSeen

(* --------------------- rotate_anaconda_token --------------------------- *)
\* test imports whose failure is kept for the sanitized report
PrecheckError_Swallowed(outcome) ==
    IF outcome = "import_error"
    THEN Exc("ImportError", <<"ImportError", ": ", "travis_endpoint">>,
             "precheck")
    ELSE NoExc

\* lines 32-39: the exception the test imports end in, if any
PrecheckError(outcome) ==
    CASE outcome = "no_token" -> Exc("RuntimeError", NoTokenMsg, "precheck")
      [] outcome = "import_error" ->
            Exc("ImportError", <<"ImportError", ": ", "travis_endpoint">>,
                "precheck")
      [] OTHER -> NoExc

\* lines 32-39: the test imports, outside the suppressed region
Precheck ==
    /\ pc = "precheck"
    /\ LET e == PrecheckError(imports) IN
        IF e.live
        THEN /\ result' = "raised"
             /\ raised' = e
             /\ pc' = "done"
        ELSE /\ pc' = "enter"
             /\ UNCHANGED endVars
    /\ UNCHANGED <<callVars, localVars, exc, cur, streamVars, streams,
                   invoked, completed, adapter_exc, calls, r, ev_id, worldVars>>

\* lines 43-53: failed/err_msg, open(os.devnull), the two redirects
EnterScope ==
    /\ pc = "enter"
    /\ failed' = FALSE
    /\ err_msg' = NoMsg
    /\ old_stdout' = sys_stdout
    /\ sys_stdout' = Fpo(DebugSet, sys_stdout)
    /\ old_stderr' = sys_stderr
    /\ sys_stderr' = Fpe(DebugSet, sys_stdout)
    /\ pc' = Order[1]
    /\ UNCHANGED <<callVars, exc, cur, streams, endVars, invoked, completed,
                   adapter_exc, calls, r, ev_id, worldVars>>

\* the block that follows the block of provider p
Index(p) == CHOOSE i \in 1..Len(Order) : Order[i] = p
After(p) == IF Index(p) < Len(Order) THEN Order[Index(p) + 1] ELSE "exit"

\* `if <provider>:` is false: fall through to the next block
Skip(p) ==
    /\ pc = p
    /\ ~Enabled(p)
    /\ pc' = After(p)
    /\ r' = 0
    /\ ev_id' = 0
    /\ UNCHANGED <<callVars, localVars, exc, cur, streamVars, streams,
                   endVars, invoked, completed, adapter_exc, calls,
                   worldVars>>

\* the adapter of p raises e: control goes to p's `except Exception as e`
AdapterRaises(p, e) ==
    /\ exc' = e
    /\ adapter_exc' = e
    /\ cur' = p
    /\ pc' = "except"
    /\ UNCHANGED completed

\* the adapter of p returns: control goes to the next block
AdapterReturns(p) ==
    /\ completed' = completed \cup {p}
    /\ pc' = After(p)
    /\ UNCHANGED <<exc, adapter_exc, cur>>

\* the adapter of p goes on to its step `next`
AdapterContinues(next) ==
    /\ pc' = next
    /\ UNCHANGED <<exc, adapter_exc, cur, completed>>

\* a handler that records the adapter's own text as the message
ProviderExcept_LeakText(p, e) ==
    IF DebugSet
    THEN [exc |-> e, err_msg |-> err_msg, failed |-> failed,
          next |-> "outer_except"]
    ELSE [exc |-> Exc("RuntimeError", e.text, "orchestrator"),
          err_msg |-> Msg(e.text), failed |-> TRUE, next |-> "outer_except"]

\* a handler that records the failure and goes on with the next provider
ProviderExcept_BestEffort(p, e) ==
    IF DebugSet
    THEN [exc |-> e, err_msg |-> err_msg, failed |-> failed,
          next |-> "outer_except"]
    ELSE [exc |-> NoExc, err_msg |-> Msg(FailMsg(user, project, p)),
          failed |-> TRUE, next |-> After(p)]

\* a handler that never looks at the debug flag
ProviderExcept_AlwaysSanitize(p, e) ==
    [exc |-> Exc("RuntimeError", FailMsg(user, project, p), "orchestrator"),
     err_msg |-> Msg(FailMsg(user, project, p)),
     failed |-> TRUE, next |-> "outer_except"]

\* a handler that raises the message without keeping it in err_msg
ProviderExcept_NoMessage(p, e) ==
    IF DebugSet
    THEN [exc |-> e, err_msg |-> err_msg, failed |-> failed,
          next |-> "outer_except"]
    ELSE [exc |-> Exc("RuntimeError", FailMsg(user, project, p),
                      "orchestrator"),
          err_msg |-> err_msg, failed |-> TRUE, next |-> "outer_except"]

\* the per-provider except blocks (lines 58-67, 72-80, 85-94, 99-107,
\* 114-123): what is raised from the block, the locals after it, and where
\* control goes (both branches raise, so to the outer except)
ProviderExcept(p, e) ==
    IF DebugSet
    THEN [exc |-> e, err_msg |-> err_msg, failed |-> failed,
          next |-> "outer_except"]
    ELSE [exc |-> Exc("RuntimeError", FailMsg(user, project, p),
                      "orchestrator"),
          err_msg |-> Msg(FailMsg(user, project, p)),
          failed |-> TRUE, next |-> "outer_except"]

Except ==
    /\ pc = "except"
    /\ LET h == ProviderExcept(cur, exc) IN
        /\ exc' = h.exc
        /\ err_msg' = h.err_msg
        /\ failed' = h.failed
        /\ pc' = h.next
    /\ UNCHANGED <<callVars, cur, streamVars, streams, endVars, invoked,
                   completed, adapter_exc, calls, r, ev_id, worldVars>>

\* lines 125-128: what leaves the outer try, and `failed` after it
OuterExceptResult(e) ==
    IF DebugSet
    THEN [exc |-> e, failed |-> failed]
    ELSE [exc |-> NoExc, failed |-> TRUE]

OuterExcept ==
    /\ pc = "outer_except"
    /\ LET h == OuterExceptResult(exc) IN
        /\ exc' = h.exc
        /\ failed' = h.failed
    /\ pc' = "exit"
    /\ UNCHANGED <<callVars, err_msg, cur, streamVars, streams, endVars,
                   invoked, completed, adapter_exc, calls, r, ev_id, worldVars>>

\* a scope that puts the streams back on the normal path only
ExitTargets_NormalOnly(propagating) ==
    IF propagating
    THEN [out |-> sys_stdout, err |-> sys_stderr]
    ELSE [out |-> old_stdout, err |-> old_stderr]

\* redirect_stderr.__exit__ then redirect_stdout.__exit__: what sys.stdout
\* and sys.stderr are set to, whether or not an exception is passing
ExitTargets(propagating) == [out |-> old_stdout, err |-> old_stderr]

\* leaving both `with` statements (end of line 128); an exception that is
\* still in flight leaves the function here
ExitScope ==
    /\ pc = "exit"
    /\ sys_stdout' = ExitTargets(exc.live).out
    /\ sys_stderr' = ExitTargets(exc.live).err
    /\ UNCHANGED <<old_stdout, old_stderr>>
    /\ IF exc.live
       THEN /\ result' = "raised"
            /\ raised' = exc
            /\ exc' = NoExc
            /\ pc' = "done"
       ELSE /\ pc' = "final"
            /\ UNCHANGED <<endVars, exc>>
    /\ UNCHANGED <<callVars, localVars, cur, streams, invoked, completed,
                   adapter_exc, calls, r, ev_id, worldVars>>

\* a function that ends without the raise of lines 129-140
FinalError_NeverRaises(f, m) == NoExc

\* lines 129-140: the error raised after the scope, if any
FinalError(f, m) ==
    IF f
    THEN IF Truthy(m)
         THEN Exc("RuntimeError", m.text, "final")
         ELSE Exc("RuntimeError", GenericMsg(user, project), "final")
    ELSE NoExc

FinalCheck ==
    /\ pc = "final"
    /\ LET e == FinalError(failed, err_msg) IN
        /\ raised' = e
        /\ result' = IF e.live THEN "raised" ELSE "returned"
    /\ pc' = "done"
    /\ UNCHANGED <<callVars, localVars, exc, cur, streamVars, streams,
                   invoked, completed, adapter_exc, calls, r, ev_id, worldVars>>

(* ----------------------------- providers ------------------------------- *)
\* requests' raise_for_status(): raises on 4xx and 5xx only
RaiseForStatus(s) == s >= 400 /\ s < 600

\* the provider performed the request (and sent the body asked for)
Applied(s) == s < 400

\* one record per request the program issued
Req(p, op, name, value, id, existed) ==
    [prov |-> p, op |-> op, name |-> name, value |-> value, id |-> id,
     existed |-> existed]

Log(q) == Append(calls, q)

\* a name -> value store, as circle and drone keep per project
Stores == UNION {[S -> {OldValue}] : S \in SUBSET Names}
Put(store, n, v) == [k \in DOMAIN store \cup {n} |->
                        IF k = n THEN v ELSE store[k]]
Remove(store, n) == [k \in DOMAIN store \ {n} |-> store[k]]

See(p, w) == [before EXCEPT !.seen = @ \cup {p}, ![p] = w]

\* everything an adapter step leaves alone
adapterFrame == <<callVars, localVars, streamVars, endVars>>
\* ... and every adapter but the travis one
notTravis == <<ev_id, travis_env_vars>>

(* ----------------------- rotate_token_in_circle ------------------------ *)
\* a scan that never finds the entry
CircleHaveToken_Never(names) == FALSE

\* a delete whose answer is not looked at
CircleDeleteRaises_Never(s) == FALSE

\* lines 159-162
CircleHaveToken(names) == \E n \in names : n = SecretName
\* lines 156-157 and 173-174
CircleGetRaises(s) == s # HTTP_OK /\ RaiseForStatus(s)
CircleDeleteRaises(s) == s # HTTP_OK /\ RaiseForStatus(s)
\* a create whose answer is not looked at
CirclePostRaises_Never(s) == FALSE

\* lines 183-184
CirclePostRaises(s) == s # HTTP_CREATED

\* lines 144-164: the import, the listing, the scan
CircleList ==
    /\ pc = "circle"
    /\ Enabled("circle")
    /\ invoked' = Append(invoked, "circle")
    /\ \/ /\ AdapterRaises("circle",
                            AdapterExc("ImportError", "circle", "import"))
          /\ r' = 0
          /\ UNCHANGED <<calls, streams, circle_env, before>>
       \/ \E w \in Stores, s \in Statuses :
            /\ circle_env' = w
            /\ before' = See("circle", w)
            /\ calls' = Log(Req("circle", "list", "", "", 0, FALSE))
            /\ r' = s
            /\ streams' = Emit("circle")
            /\ IF CircleGetRaises(s)
               THEN AdapterRaises("circle",
                                  AdapterExc("HTTPError", "circle", "list"))
               ELSE AdapterContinues(IF CircleHaveToken(DOMAIN w)
                                     THEN "circle_delete"
                                     ELSE "circle_create")
    /\ UNCHANGED <<adapterFrame, drone_secrets, notTravis, azure_defs,
                   appveyor_cfg>>

\* lines 165-174
CircleDelete ==
    /\ pc = "circle_delete"
    /\ \E s \in Statuses :
        /\ calls' = Log(Req("circle", "delete", SecretName, "", 0,
                            SecretName \in DOMAIN circle_env))
        /\ r' = s
        /\ streams' = Emit("circle")
        /\ circle_env' = IF Applied(s) THEN Remove(circle_env, SecretName)
                                       ELSE circle_env
        /\ IF CircleDeleteRaises(s)
           THEN AdapterRaises("circle",
                              AdapterExc("HTTPError", "circle", "delete"))
           ELSE AdapterContinues("circle_create")
    /\ UNCHANGED <<adapterFrame, invoked, before, drone_secrets,
                   notTravis, azure_defs, appveyor_cfg>>

\* lines 176-184
CircleCreate ==
    /\ pc = "circle_create"
    /\ \E s \in Statuses :
        /\ calls' = Log(Req("circle", "create", SecretName, anaconda_token,
                            0, SecretName \in DOMAIN circle_env))
        /\ r' = s
        /\ streams' = Emit("circle")
        /\ circle_env' = IF Applied(s)
                         THEN Put(circle_env, SecretName, anaconda_token)
                         ELSE circle_env
        /\ IF CirclePostRaises(s)
           THEN AdapterRaises("circle",
                              AdapterExc("ValueError", "circle", "create"))
           ELSE AdapterReturns("circle")
    /\ UNCHANGED <<adapterFrame, invoked, before, drone_secrets,
                   notTravis, azure_defs, appveyor_cfg>>

(* ----------------------- rotate_token_in_drone ------------------------- *)
\* a scan with the test inverted
DroneHaveToken_Inverted(names) == ~(\E n \in names : SecretName = n)

\* an update whose answer is not looked at
DronePatchRaises_Never(s) == FALSE

\* lines 194-197
DroneHaveToken(names) == \E n \in names : SecretName = n
\* lines 193 and 204
DroneGetRaises(s) == RaiseForStatus(s)
DronePatchRaises(s) == RaiseForStatus(s)
\* lines 214-215
DronePostRaises(s) == s # HTTP_OK /\ RaiseForStatus(s)

\* lines 188-199
DroneList ==
    /\ pc = "drone"
    /\ Enabled("drone")
    /\ invoked' = Append(invoked, "drone")
    /\ \/ /\ AdapterRaises("drone",
                            AdapterExc("ImportError", "drone", "import"))
          /\ r' = 0
          /\ UNCHANGED <<calls, streams, drone_secrets, before>>
       \/ \E w \in Stores, s \in Statuses :
            /\ drone_secrets' = w
            /\ before' = See("drone", w)
            /\ calls' = Log(Req("drone", "list", "", "", 0, FALSE))
            /\ r' = s
            /\ streams' = Emit("drone")
            /\ IF DroneGetRaises(s)
               THEN AdapterRaises("drone",
                                  AdapterExc("HTTPError", "drone", "list"))
               ELSE AdapterContinues(IF DroneHaveToken(DOMAIN w)
                                     THEN "drone_patch"
                                     ELSE "drone_post")
    /\ UNCHANGED <<adapterFrame, circle_env, notTravis, azure_defs,
                   appveyor_cfg>>

\* lines 200-204
DronePatch ==
    /\ pc = "drone_patch"
    /\ \E s \in Statuses :
        /\ calls' = Log(Req("drone", "update", SecretName, anaconda_token,
                            0, SecretName \in DOMAIN drone_secrets))
        /\ r' = s
        /\ streams' = Emit("drone")
        /\ drone_secrets' =
              IF Applied(s) /\ SecretName \in DOMAIN drone_secrets
              THEN Put(drone_secrets, SecretName, anaconda_token)
              ELSE drone_secrets
        /\ IF DronePatchRaises(s)
           THEN AdapterRaises("drone",
                              AdapterExc("HTTPError", "drone", "update"))
           ELSE AdapterReturns("drone")
    /\ UNCHANGED <<adapterFrame, invoked, before, circle_env,
                   notTravis, azure_defs, appveyor_cfg>>

\* lines 206-215
DronePost ==
    /\ pc = "drone_post"
    /\ \E s \in Statuses :
        /\ calls' = Log(Req("drone", "create", SecretName, anaconda_token,
                            0, SecretName \in DOMAIN drone_secrets))
        /\ r' = s
        /\ streams' = Emit("drone")
        /\ drone_secrets' =
              IF Applied(s)
              THEN Put(drone_secrets, SecretName, anaconda_token)
              ELSE drone_secrets
        /\ IF DronePostRaises(s)
           THEN AdapterRaises("drone",
                              AdapterExc("HTTPError", "drone", "create"))
           ELSE AdapterReturns("drone")
    /\ UNCHANGED <<adapterFrame, invoked, before, circle_env,
                   notTravis, azure_defs, appveyor_cfg>>

(* ----------------------- rotate_token_in_travis ------------------------ *)
\* the env-var listings travis can answer with: entries with distinct ids
EnvVarLists ==
    UNION {{[i \in 1..n |-> [id |-> i, name |-> f[i], value |-> OldValue]] :
                f \in [1..n -> Names]} : n \in 0..MaxEnvVars}

\* lines 238-243: the scan keeps the id of the last entry of that name;
\* ev_id = None is 0 here
\* a scan that takes the id of every entry it passes
RECURSIVE TravisScanAnyId(_, _, _)
TravisScanAnyId(evs, i, acc) ==
    IF i > Len(evs)
    THEN acc
    ELSE TravisScanAnyId(evs, i + 1,
                         [have |-> acc.have \/ evs[i].name = SecretName,
                          ev_id |-> evs[i].id])
TravisScan_AnyId(evs) == TravisScanAnyId(evs, 1, [have |-> FALSE, ev_id |-> 0])

RECURSIVE TravisScanFrom(_, _, _)
TravisScanFrom(evs, i, acc) ==
    IF i > Len(evs)
    THEN acc
    ELSE TravisScanFrom(evs, i + 1,
                        IF evs[i].name = SecretName
                        THEN [have |-> TRUE, ev_id |-> evs[i].id]
                        ELSE acc)
TravisScan(evs) == TravisScanFrom(evs, 1, [have |-> FALSE, ev_id |-> 0])

\* lines 235-236, 259, 268-269
TravisGetRaises(s) == s # HTTP_OK /\ RaiseForStatus(s)
TravisPatchRaises(s) == RaiseForStatus(s)
TravisPostRaises(s) == s # HTTP_CREATED /\ RaiseForStatus(s)

HasName(evs, n) == \E i \in 1..Len(evs) : evs[i].name = n
FreshId(evs) ==
    1 + (CHOOSE m \in 0..Len(evs) :
            /\ \A i \in 1..Len(evs) : evs[i].id <= m
            /\ m = 0 \/ \E i \in 1..Len(evs) : evs[i].id = m)

\* lines 220-229: the imports, the headers, the repository lookup
TravisRepoInfo ==
    /\ pc = "travis"
    /\ Enabled("travis")
    /\ invoked' = Append(invoked, "travis")
    /\ \/ /\ AdapterRaises("travis",
                            AdapterExc("ImportError", "travis", "import"))
          /\ r' = 0
          /\ UNCHANGED <<calls, streams>>
       \/ \E found \in BOOLEAN :
            /\ calls' = Log(Req("travis", "repo_info", "", "", 0, FALSE))
            /\ streams' = Emit("travis")
            /\ r' = 0
            /\ IF found
               THEN AdapterContinues("travis_list")
               ELSE AdapterRaises("travis",
                                  AdapterExc("HTTPError", "travis",
                                             "repo_info"))
    /\ UNCHANGED <<adapterFrame, before, circle_env, drone_secrets,
                   notTravis, azure_defs, appveyor_cfg>>

\* lines 231-251
TravisList ==
    /\ pc = "travis_list"
    /\ \E w \in EnvVarLists, s \in Statuses :
        /\ travis_env_vars' = w
        /\ before' = See("travis", w)
        /\ calls' = Log(Req("travis", "list", "", "", 0, FALSE))
        /\ r' = s
        /\ streams' = Emit("travis")
        /\ IF TravisGetRaises(s)
           THEN /\ AdapterRaises("travis",
                                 AdapterExc("HTTPError", "travis", "list"))
                /\ UNCHANGED ev_id
           ELSE /\ ev_id' = TravisScan(w).ev_id
                /\ AdapterContinues(IF TravisScan(w).have
                                    THEN "travis_patch"
                                    ELSE "travis_post")
    /\ UNCHANGED <<adapterFrame, invoked, circle_env, drone_secrets,
                   azure_defs, appveyor_cfg>>

\* lines 252-259
TravisPatch ==
    /\ pc = "travis_patch"
    /\ \E s \in Statuses :
        /\ calls' = Log(Req("travis", "update", SecretName, anaconda_token,
                            ev_id, HasName(travis_env_vars, SecretName)))
        /\ r' = s
        /\ streams' = Emit("travis")
        /\ travis_env_vars' =
              IF Applied(s)
              THEN [i \in 1..Len(travis_env_vars) |->
                       IF travis_env_vars[i].id = ev_id
                       THEN [id |-> ev_id, name |-> SecretName,
                             value |-> anaconda_token]
                       ELSE travis_env_vars[i]]
              ELSE travis_env_vars
        /\ IF TravisPatchRaises(s)
           THEN AdapterRaises("travis",
                              AdapterExc("HTTPError", "travis", "update"))
           ELSE AdapterReturns("travis")
    /\ UNCHANGED <<adapterFrame, invoked, before, ev_id, circle_env,
                   drone_secrets, azure_defs, appveyor_cfg>>

\* lines 261-269
TravisPost ==
    /\ pc = "travis_post"
    /\ \E s \in Statuses :
        /\ calls' = Log(Req("travis", "create", SecretName, anaconda_token,
                            0, HasName(travis_env_vars, SecretName)))
        /\ r' = s
        /\ streams' = Emit("travis")
        /\ travis_env_vars' =
              IF Applied(s)
              THEN Append(travis_env_vars,
                          [id |-> FreshId(travis_env_vars),
                           name |-> SecretName, value |-> anaconda_token])
              ELSE travis_env_vars
        /\ IF TravisPostRaises(s)
           THEN AdapterRaises("travis",
                              AdapterExc("HTTPError", "travis", "create"))
           ELSE AdapterReturns("travis")
    /\ UNCHANGED <<adapterFrame, invoked, before, ev_id, circle_env,
                   drone_secrets, azure_defs, appveyor_cfg>>

(* ----------------------- rotate_token_in_azure ------------------------- *)
\* a variables mapping of a build definition; ed.variables may be None
OldVariable == [value |-> OldValue, is_secret |-> FALSE,
                allow_override |-> TRUE]
VariableMaps == UNION {[S -> {OldVariable}] : S \in SUBSET Names}
NoVars == [n \in {} |-> OldVariable]
VariablesValues ==
    {[none |-> TRUE, map |-> NoVars]}
        \cup {[none |-> FALSE, map |-> m] : m \in VariableMaps}

\* what get_definitions can answer with: definitions with distinct ids
\* (the definitions of one answer differ in their ids only)
DefinitionLists ==
    UNION {{[i \in 1..n |-> [id |-> i, revision |-> 1, variables |-> v]] :
                v \in VariablesValues} : n \in 0..MaxDefinitions}

\* lines 290-293
AzureVariables(ed) == IF ed.variables.none THEN NoVars ELSE ed.variables.map

\* a mapping built anew for the secret alone
AzureNewVariables_Fresh(ed) ==
    Put(NoVars, SecretName,
        [value |-> anaconda_token, is_secret |-> TRUE,
         allow_override |-> FALSE])

\* azure_ci_utils.get_default_build_definition: the definition object built
\* for the project carries the variables, id and revision it is given
get_default_build_definition(variables, id, revision) ==
    [id |-> id, revision |-> revision, variables |-> variables]

\* lines 295-297
AzureNewVariables(ed) ==
    Put(AzureVariables(ed), SecretName,
        [value |-> anaconda_token, is_secret |-> TRUE,
         allow_override |-> FALSE])

\* lines 282-288: "ok", or the exception type raised
AzureCheckDefinitions(defs) ==
    IF Len(defs) > 0
    THEN IF Len(defs) = 1 THEN "ok" ELSE "AssertionError"
    ELSE "RuntimeError"

\* lines 273-297
AzureGetDefinitions ==
    /\ pc = "azure"
    /\ Enabled("azure")
    /\ invoked' = Append(invoked, "azure")
    /\ \/ /\ AdapterRaises("azure",
                            AdapterExc("ImportError", "azure", "import"))
          /\ UNCHANGED <<calls, streams, azure_defs, before>>
       \/ /\ calls' = Log(Req("azure", "get_definitions", "", "", 0, FALSE))
          /\ streams' = Emit("azure")
          /\ \/ /\ AdapterRaises("azure",
                                  AdapterExc("ClientError", "azure",
                                             "get_definitions"))
                /\ UNCHANGED <<azure_defs, before>>
             \/ \E w \in DefinitionLists :
                  /\ azure_defs' = w
                  /\ before' = See("azure", w)
                  /\ IF AzureCheckDefinitions(w) = "ok"
                     THEN AdapterContinues("azure_update")
                     ELSE AdapterRaises("azure",
                                        AdapterExc(AzureCheckDefinitions(w),
                                                   "azure", "check"))
    /\ r' = 0
    /\ UNCHANGED <<adapterFrame, circle_env, drone_secrets, notTravis,
                   appveyor_cfg>>

\* lines 299-312
AzureUpdate ==
    /\ pc = "azure_update"
    /\ LET ed == azure_defs[1]
           definition == get_default_build_definition(
                             AzureNewVariables(ed), ed.id, ed.revision)
       IN
        /\ calls' = Log([prov |-> "azure", op |-> "update_definition",
                         name |-> SecretName, value |-> anaconda_token,
                         id |-> ed.id,
                         existed |-> SecretName \in DOMAIN AzureVariables(ed),
                         definition |-> definition])
        /\ streams' = Emit("azure")
        /\ \E accepted \in BOOLEAN :
            IF accepted
            THEN /\ azure_defs' =
                       <<[id |-> ed.id, revision |-> ed.revision + 1,
                          variables |-> [none |-> FALSE,
                                         map |-> definition.variables]]>>
                 /\ AdapterReturns("azure")
            ELSE /\ UNCHANGED azure_defs
                 /\ AdapterRaises("azure",
                                  AdapterExc("ClientError", "azure",
                                             "update_definition"))
    /\ UNCHANGED <<adapterFrame, invoked, before, r, circle_env,
                   drone_secrets, notTravis, appveyor_cfg>>

(* ---------------------- rotate_token_in_appveyor ----------------------- *)
\* conda-forge.yml as nested mappings: top key -> key -> name -> string
\* (the file always holds another top-level key; the appveyor key is
\* absent, empty, without a secure key, or with one)
Leaves == UNION {[S -> {OldValue}] : S \in SUBSET Names}
OtherSection == [x \in {"other"} |-> EmptyMap]
AppveyorSections ==
    {[x \in {} |-> EmptyMap], OtherSection}
        \cup {[x \in {"secure", "other"} |->
                  IF x = "secure" THEN l ELSE EmptyMap] : l \in Leaves}
Configs ==
    {[k \in {"travis"} |-> OtherSection]}
        \cup {[k \in {"travis", "appveyor"} |->
                  IF k = "appveyor" THEN a ELSE OtherSection] :
                      a \in AppveyorSections}

\* response.content.decode("utf-8") of the encrypt call
Ciphertext == "enc_of_tok_new"

\* dict.setdefault(k, {}) on d, the mapping after it
SetDefault(d, k, empty) ==
    [x \in DOMAIN d \cup {k} |-> IF x \in DOMAIN d THEN d[x] ELSE empty]

\* a patch that assigns the appveyor key a fresh mapping
AppveyorPatch_Overwrite(code) ==
    [k \in DOMAIN code \cup {"appveyor"} |->
        IF k = "appveyor"
        THEN [x \in {"secure"} |-> [n \in {SecretName} |-> Ciphertext]]
        ELSE code[k]]

\* utils.update_conda_forge_config: the mapping handed to the body is the
\* file's content, and what the body leaves is written back on normal exit
update_conda_forge_config(patched) == patched

\* lines 327-329 applied to the loaded mapping
AppveyorPatch(code) ==
    LET c1 == SetDefault(code, "appveyor", [x \in {} |-> EmptyMap])
        a1 == SetDefault(c1["appveyor"], "secure", EmptyMap)
        s1 == Put(a1["secure"], SecretName, Ciphertext)
    IN  [c1 EXCEPT !["appveyor"] = [a1 EXCEPT !["secure"] = s1]]

\* a status test left to raise_for_status, as in the other adapters
AppveyorPostRaises_Lenient(s) == s # HTTP_OK /\ RaiseForStatus(s)

\* line 323
AppveyorPostRaises(s) == s # HTTP_OK

\* lines 316-324
AppveyorEncrypt ==
    /\ pc = "appveyor"
    /\ Enabled("appveyor")
    /\ invoked' = Append(invoked, "appveyor")
    /\ \E w \in Configs :
        /\ appveyor_cfg' = w
        /\ before' = See("appveyor", w)
    /\ \/ /\ AdapterRaises("appveyor",
                            AdapterExc("ImportError", "appveyor", "import"))
          /\ r' = 0
          /\ UNCHANGED <<calls, streams>>
       \/ \E s \in Statuses :
            /\ calls' = Log(Req("appveyor", "encrypt", "", anaconda_token,
                                0, FALSE))
            /\ r' = s
            /\ streams' = Emit("appveyor")
            /\ IF AppveyorPostRaises(s)
               THEN AdapterRaises("appveyor",
                                  AdapterExc("ValueError", "appveyor",
                                             "encrypt"))
               ELSE AdapterContinues("appveyor_config")
    /\ UNCHANGED <<adapterFrame, circle_env, drone_secrets, notTravis,
                   azure_defs>>

\* lines 326-329: the file is loaded, patched and written back
AppveyorConfig ==
    /\ pc = "appveyor_config"
    /\ appveyor_cfg' = update_conda_forge_config(AppveyorPatch(appveyor_cfg))
    /\ AdapterReturns("appveyor")
    /\ UNCHANGED <<adapterFrame, invoked, before, calls, r, streams,
                   circle_env, drone_secrets, notTravis, azure_defs>>

(* ------------------------------ the call ------------------------------- *)
Next ==
    \/ Precheck
    \/ EnterScope
    \/ \E p \in Providers : Skip(p)
    \/ CircleList \/ CircleDelete \/ CircleCreate
    \/ DroneList \/ DronePatch \/ DronePost
    \/ TravisRepoInfo \/ TravisList \/ TravisPatch \/ TravisPost
    \/ AzureGetDefinitions \/ AzureUpdate
    \/ AppveyorEncrypt \/ AppveyorConfig
    \/ Except
    \/ OuterExcept
    \/ ExitScope
    \/ FinalCheck

Spec == Init /\ [][Next]_vars

(* ======================== properties of the call ======================= *)
\* the order the specification names
NamedOrder == <<"circle", "drone", "travis", "azure", "appveyor">>
Rank(p) == CHOOSE i \in 1..Len(NamedOrder) : NamedOrder[i] = p

Done == pc = "done"
\* the call got past the test imports
PrecheckPassed == Done /\ raised.origin # "precheck"
\* an adapter raised during the call
AdapterFailed == adapter_exc.live
AllEnabled == \A p \in Providers : Enabled(p)
LastInvoked == invoked[Len(invoked)]

\* positions in the log of the requests of kind op issued by provider p
CallsOf(p, op) ==
    {i \in 1..Len(calls) : calls[i].prov = p /\ calls[i].op = op}
Creates(p) == CallsOf(p, "create")

\* provider p held an entry named BINSTAR_TOKEN when the adapter first
\* looked
HadEntry(p) ==
    /\ p \in before.seen
    /\ CASE p = "circle" -> SecretName \in DOMAIN before.circle
         [] p = "drone" -> SecretName \in DOMAIN before.drone
         [] p = "travis" -> HasName(before.travis, SecretName)
         [] p = "azure" ->
                /\ Len(before.azure) > 0
                /\ SecretName \in DOMAIN AzureVariables(before.azure[1])
         [] p = "appveyor" ->
                /\ "appveyor" \in DOMAIN before.appveyor
                /\ "secure" \in DOMAIN before.appveyor["appveyor"]
                /\ SecretName \in DOMAIN before.appveyor["appveyor"]["secure"]

\* the payload of request i names BINSTAR_TOKEN and carries the new secret
GoodPayload(i) ==
    calls[i].name = SecretName /\ calls[i].value = anaconda_token

\* C1: debug unset and the adapter of P raised: the caller gets the message
\* "Failed to rotate token for {user}/{project} on {P}!", which holds P's
\* name and the user/project pair and neither the secret nor the text of
\* the adapter's exception
C1_SanitizedMessage ==
    (Done /\ ~DebugSet /\ AdapterFailed) =>
        /\ result = "raised"
        /\ raised.text = <<"Failed to rotate token for ", user, "/", project,
                           " on ", adapter_exc.origin, "!">>
        /\ Contains(raised.text, <<user, "/", project>>)
        /\ Contains(raised.text, <<adapter_exc.origin>>)
        /\ ~Contains(raised.text, <<anaconda_token>>)
        /\ ~Contains(raised.text, adapter_exc.text)

C1_Witness ==
    /\ Done /\ ~DebugSet /\ AdapterFailed
    /\ adapter_exc.origin = "travis"
    /\ adapter_exc.type = "HTTPError"
    /\ result = "raised"

\* C2: debug unset: once an adapter has raised, it stays the last adapter
\* invoked and no request of a later provider is issued
C2_FailFast ==
    (~DebugSet /\ AdapterFailed) =>
        /\ LastInvoked = adapter_exc.origin
        /\ \A i \in 1..Len(invoked) :
              Rank(invoked[i]) <= Rank(adapter_exc.origin)
        /\ \A i \in 1..Len(calls) :
              Rank(calls[i].prov) <= Rank(adapter_exc.origin)

\* drone's upsert answered 500 with travis, azure and appveyor enabled
C2_Witness ==
    /\ Done /\ ~DebugSet /\ AdapterFailed
    /\ adapter_exc.origin = "drone"
    /\ adapter_exc.text[5] \in {"update", "create"}
    /\ r = 500
    /\ Enabled("travis") /\ Enabled("azure") /\ Enabled("appveyor")

\* C3: debug unset: nothing an adapter writes reaches the caller's stdout
\* or stderr; every write of every adapter that issued a request is in the
\* discarded sink
C3_OutputSuppressed ==
    ~DebugSet =>
        /\ streams["caller_stdout"] = {}
        /\ streams["caller_stderr"] = {}
        /\ \A i \in 1..Len(calls) :
              /\ <<calls[i].prov, "stdout">> \in streams["devnull"]
              /\ <<calls[i].prov, "stderr">> \in streams["devnull"]

C3_Witness ==
    /\ Done /\ ~DebugSet /\ AdapterFailed
    /\ completed # {}
    /\ <<adapter_exc.origin, "stderr">> \in streams["devnull"]
    /\ \A p \in completed : <<p, "stdout">> \in streams["devnull"]

\* C4: debug set and an adapter raised: the caller gets that very
\* exception, and the adapter that raised is the last one invoked
C4_DebugPropagates ==
    (Done /\ DebugSet /\ AdapterFailed) =>
        /\ result = "raised"
        /\ raised = adapter_exc
        /\ LastInvoked = adapter_exc.origin
        /\ \A i \in 1..Len(calls) :
              Rank(calls[i].prov) <= Rank(adapter_exc.origin)

C4_Witness ==
    /\ Done /\ DebugSet /\ AdapterFailed
    /\ adapter_exc.origin = "circle"
    /\ adapter_exc.type = "ValueError"
    /\ Enabled("drone")
    /\ raised.type = "ValueError"

\* C5: when the call has ended, by return or by raise, sys.stdout and
\* sys.stderr are the objects the caller had installed
C5_StreamsRestored ==
    Done => sys_stdout = "caller_stdout" /\ sys_stderr = "caller_stderr"

\* the exit by propagation in debug mode
C5_Witness ==
    /\ Done /\ DebugSet /\ AdapterFailed
    /\ result = "raised"
    /\ sys_stderr = "caller_stderr"
    /\ streams["caller_stdout"] # {}

\* C6: past the precheck, the call returns exactly when every enabled
\* provider's adapter returned; a failure with debug unset is raised once,
\* by the check after the scope (streams already restored), with the
\* recorded per-provider message or else the generic one
C6_ReturnIffAllSucceeded ==
    PrecheckPassed =>
        /\ result \in {"returned", "raised"}
        /\ (result = "returned") <=>
              (\A p \in Providers : Enabled(p) => p \in completed)
        /\ (result = "raised" /\ ~DebugSet) =>
              /\ raised.origin = "final"
              /\ sys_stdout = "caller_stdout" /\ sys_stderr = "caller_stderr"
              /\ raised.text = (IF err_msg.none
                                 THEN GenericMsg(user, project)
                                 ELSE err_msg.text)

C6_Witness ==
    /\ PrecheckPassed /\ ~DebugSet
    /\ result = "raised"
    /\ completed # {}
    /\ \E p \in Providers : Enabled(p) /\ p \notin completed

\* C7: adapters are invoked in the order circle, drone, travis, azure,
\* appveyor, each at most once and only if enabled; a call with no flags
\* that returns has invoked all five
C7_FixedOrder ==
    /\ \A i, j \in 1..Len(invoked) :
          i < j => Rank(invoked[i]) < Rank(invoked[j])
    /\ \A i \in 1..Len(invoked) : args[invoked[i]] # "False"
    /\ \A p \in Providers :
          (Done /\ result = "returned" /\ args[p] # "False") =>
              \E i \in 1..Len(invoked) : invoked[i] = p
    /\ (Done /\ result = "returned" /\ \A p \in Providers : args[p] = "omitted")
          => invoked = NamedOrder

C7_Witness ==
    /\ Done /\ result = "returned"
    /\ \A p \in Providers : args[p] = "omitted"
    /\ invoked = <<"circle", "drone", "travis", "azure", "appveyor">>

(* ====================== properties of the adapters ===================== *)
RemoteStores == {"circle", "drone", "travis"}
NoneHadEntry == \A p \in Providers : ~HadEntry(p)

\* C8 as stated: every one of the five adapters that finds no entry named
\* BINSTAR_TOKEN issues exactly one create call with the name/value
\* payload, so a returning call with all five enabled and no entry
\* anywhere has issued five create calls
C8_AsStated ==
    /\ \A p \in completed :
          ~HadEntry(p) =>
              /\ Cardinality(Creates(p)) = 1
              /\ \A i \in Creates(p) : GoodPayload(i)
    /\ (Done /\ result = "returned" /\ AllEnabled /\ NoneHadEntry) =>
          Cardinality({i \in 1..Len(calls) : calls[i].op = "create"}) = 5

\* C8 (amended): the adapters of circle, drone and travis, finding no entry
\* named BINSTAR_TOKEN and returning, have issued exactly one create call,
\* with name BINSTAR_TOKEN and the new secret, and no update or delete;
\* azure and appveyor never issue a create call: a returning azure adapter
\* has issued one update_definition, a returning appveyor adapter one
\* encrypt call; a returning call with all five enabled and no entry
\* anywhere has issued three create calls, one update_definition and one
\* encrypt call
C8_CreateWhenAbsent ==
    /\ \A p \in completed \cap RemoteStores :
          ~HadEntry(p) =>
              /\ Cardinality(Creates(p)) = 1
              /\ \A i \in Creates(p) : GoodPayload(i)
              /\ CallsOf(p, "update") = {}
              /\ CallsOf(p, "delete") = {}
    /\ Creates("azure") = {} /\ Creates("appveyor") = {}
    /\ "azure" \in completed =>
          Cardinality(CallsOf("azure", "update_definition")) = 1
    /\ "appveyor" \in completed =>
          /\ Cardinality(CallsOf("appveyor", "encrypt")) = 1
          /\ \A i \in CallsOf("appveyor", "encrypt") :
                calls[i].value = anaconda_token
    /\ (Done /\ result = "returned" /\ AllEnabled /\ NoneHadEntry) =>
          /\ Cardinality({i \in 1..Len(calls) : calls[i].op = "create"}) = 3
          /\ \A p \in RemoteStores : Cardinality(Creates(p)) = 1

C8_Witness ==
    /\ Done /\ result = "returned"
    /\ AllEnabled /\ NoneHadEntry
    /\ before.seen = Providers
    /\ Cardinality({i \in 1..Len(calls) : calls[i].op = "create"}) = 3

\* C9: no create call is issued while an entry named BINSTAR_TOKEN is
\* present at the provider; an adapter that found such an entry and
\* returned has updated it: circle by one delete followed by one create,
\* drone, travis and azure by one update call and no create
C9_UpdateWhenPresent ==
    /\ \A i \in 1..Len(calls) : calls[i].op = "create" => ~calls[i].existed
    /\ ("circle" \in completed /\ HadEntry("circle")) =>
          /\ Cardinality(CallsOf("circle", "delete")) = 1
          /\ Cardinality(Creates("circle")) = 1
          /\ \A d \in CallsOf("circle", "delete") :
                \A c \in Creates("circle") : d < c
    /\ \A p \in completed \cap {"drone", "travis"} :
          HadEntry(p) =>
              /\ Cardinality(CallsOf(p, "update")) = 1
              /\ \A i \in CallsOf(p, "update") : GoodPayload(i)
              /\ Creates(p) = {}
    /\ ("azure" \in completed /\ HadEntry("azure")) =>
          /\ Cardinality(CallsOf("azure", "update_definition")) = 1
          /\ Creates("azure") = {}

C9_Witness ==
    /\ Done
    /\ {"circle", "drone", "travis"} \subseteq completed
    /\ \A p \in {"circle", "drone", "travis"} : HadEntry(p)
    /\ Cardinality(CallsOf("circle", "delete")) = 1

\* C10: travis: an update call is addressed by the id of a listed entry
\* named BINSTAR_TOKEN, never by no id; when the listing held such an
\* entry no create call is issued, and an adapter that returns has issued
\* exactly one update call
C10_TravisUpdateById ==
    /\ \A i \in CallsOf("travis", "update") :
          /\ calls[i].id # 0
          /\ \E k \in 1..Len(before.travis) :
                /\ before.travis[k].id = calls[i].id
                /\ before.travis[k].name = SecretName
          /\ \A k \in 1..Len(before.travis) :
                before.travis[k].id = calls[i].id =>
                    before.travis[k].name = SecretName
    /\ HadEntry("travis") =>
          /\ Creates("travis") = {}
          /\ pc # "travis_post"
          /\ "travis" \in completed =>
                Cardinality(CallsOf("travis", "update")) = 1

\* the entry named BINSTAR_TOKEN is listed before one of another name
C10_Witness ==
    /\ "travis" \in completed
    /\ Len(before.travis) = 2
    /\ before.travis[1].name = SecretName
    /\ before.travis[2].name # SecretName
    /\ \E i \in CallsOf("travis", "update") :
          calls[i].id = before.travis[1].id

(* ================== the remaining adapter properties =================== *)
\* C11: once the appveyor adapter has returned, the configuration holds the
\* ciphertext at appveyor -> secure -> BINSTAR_TOKEN and every other key, at
\* the top level, under appveyor and under appveyor.secure, is as it was
C11_ConfigPatched ==
    "appveyor" \in completed =>
        LET old == before.appveyor
            new == appveyor_cfg
            oldA == IF "appveyor" \in DOMAIN old
                    THEN old["appveyor"] ELSE [x \in {} |-> EmptyMap]
            oldS == IF "secure" \in DOMAIN oldA
                    THEN oldA["secure"] ELSE EmptyMap
        IN  /\ DOMAIN new = DOMAIN old \cup {"appveyor"}
            /\ \A k \in DOMAIN old \ {"appveyor"} : new[k] = old[k]
            /\ DOMAIN new["appveyor"] = DOMAIN oldA \cup {"secure"}
            /\ \A k \in DOMAIN oldA \ {"secure"} :
                  new["appveyor"][k] = oldA[k]
            /\ DOMAIN new["appveyor"]["secure"] = DOMAIN oldS \cup {SecretName}
            /\ \A n \in DOMAIN oldS \ {SecretName} :
                  new["appveyor"]["secure"][n] = oldS[n]
            /\ new["appveyor"]["secure"][SecretName] = Ciphertext

\* an old secret is overwritten next to other keys at all three levels
C11_Witness ==
    /\ "appveyor" \in completed
    /\ "travis" \in DOMAIN before.appveyor
    /\ "appveyor" \in DOMAIN before.appveyor
    /\ "other" \in DOMAIN before.appveyor["appveyor"]
    /\ "secure" \in DOMAIN before.appveyor["appveyor"]
    /\ DOMAIN before.appveyor["appveyor"]["secure"] = Names
    /\ before.appveyor["appveyor"]["secure"][SecretName] = OldValue
    /\ appveyor_cfg["appveyor"]["secure"][SecretName] = Ciphertext

\* C12: when the anaconda token cannot be resolved the call ends at once,
\* with or without the debug flag, in the RuntimeError that says so: no
\* stream was redirected, no adapter invoked, no request issued, and the
\* error is not the sanitized or the generic one
C12_CredentialFailureVisible ==
    (imports = "no_token" /\ pc # "precheck") =>
        /\ Done
        /\ result = "raised"
        /\ raised.type = "RuntimeError"
        /\ raised.text = <<"You must have the anaconda token defined to do token rotation!">>
        /\ raised.origin = "precheck"
        /\ ~failed /\ err_msg.none
        /\ old_stdout = "" /\ old_stderr = ""
        /\ sys_stdout = "caller_stdout" /\ sys_stderr = "caller_stderr"
        /\ invoked = <<>> /\ calls = <<>>
        /\ \A o \in StreamObjs : streams[o] = {}

C12_Witness ==
    /\ imports = "no_token"
    /\ ~DebugSet
    /\ Done /\ result = "raised"
    /\ raised.origin = "precheck"
    /\ AllEnabled

\* the status each HTTP step counts as success: 201 for the create of
\* circle and of travis, 200 for every other step
NamedSuccess(q) ==
    IF q.op = "create" /\ q.prov \in {"circle", "travis"} THEN 201 ELSE 200
LastCall == calls[Len(calls)]

\* C13 as stated: a request answered with any status other than the step's
\* success status makes the adapter raise at that step (r is the status of
\* the last request while it is not 0)
C13_AsStated ==
    (r # 0 /\ r # NamedSuccess(LastCall)) =>
        /\ AdapterFailed
        /\ adapter_exc.origin = LastCall.prov
        /\ adapter_exc.text[5] = LastCall.op

\* C14 as stated: debug set: what an adapter writes to standard output is
\* in the caller's standard output, what it writes to the diagnostic stream
\* is in the caller's diagnostic stream, nothing is in the discarded sink
C14_AsStated ==
    DebugSet =>
        /\ streams["devnull"] = {}
        /\ \A i \in 1..Len(calls) :
              /\ <<calls[i].prov, "stdout">> \in streams["caller_stdout"]
              /\ <<calls[i].prov, "stderr">> \in streams["caller_stderr"]

\* the adapter of p raised at its step op
RaisedAt(p, op) ==
    AdapterFailed /\ adapter_exc.origin = p /\ adapter_exc.text[5] = op

\* C15: circle: with BINSTAR_TOKEN listed, a create call comes after the
\* one delete call and is issued only when that delete was performed (the
\* entry is gone), and an adapter that returns has issued both; with
\* BINSTAR_TOKEN not listed no delete call is issued and, once the
\* listing is through, exactly one create call
C15_CircleDeleteThenCreate ==
    "circle" \in before.seen =>
        /\ Cardinality(CallsOf("circle", "delete")) <= 1
        /\ Cardinality(Creates("circle")) <= 1
        /\ HadEntry("circle") =>
              /\ \A c \in Creates("circle") :
                    /\ \E d \in CallsOf("circle", "delete") : d < c
                    /\ ~calls[c].existed
              /\ RaisedAt("circle", "delete") => Creates("circle") = {}
              /\ "circle" \in completed =>
                    /\ Cardinality(CallsOf("circle", "delete")) = 1
                    /\ Cardinality(Creates("circle")) = 1
        /\ ~HadEntry("circle") =>
              /\ CallsOf("circle", "delete") = {}
              /\ (~RaisedAt("circle", "list") /\ pc # "circle_create") =>
                    Cardinality(Creates("circle")) = 1

\* the delete was refused and the adapter stopped there
C15_Witness ==
    /\ Done
    /\ HadEntry("circle")
    /\ RaisedAt("circle", "delete")
    /\ Cardinality(CallsOf("circle", "delete")) = 1
    /\ Creates("circle") = {}
    /\ SecretName \in DOMAIN circle_env

\* C16: azure: with no build definition registered the adapter raises and
\* issues no update; with exactly one, every update is addressed to its id
\* and revision and carries the existing variables with BINSTAR_TOKEN set
\* to the new secret (secret, not overridable); an adapter that returns
\* has issued exactly one update
C16_AzureUpdate ==
    "azure" \in before.seen =>
        LET defs == before.azure
            ups == CallsOf("azure", "update_definition")
        IN  /\ Len(defs) = 0 =>
                  /\ ups = {}
                  /\ RaisedAt("azure", "check")
                  /\ adapter_exc.type = "RuntimeError"
                  /\ "azure" \notin completed
            /\ Len(defs) = 1 =>
                  LET old == IF defs[1].variables.none
                             THEN NoVars ELSE defs[1].variables.map
                  IN  /\ Cardinality(ups) <= 1
                      /\ "azure" \in completed => Cardinality(ups) = 1
                      /\ \A i \in ups :
                            /\ calls[i].id = defs[1].id
                            /\ calls[i].definition.id = defs[1].id
                            /\ calls[i].definition.revision = defs[1].revision
                            /\ DOMAIN calls[i].definition.variables
                                   = DOMAIN old \cup {SecretName}
                            /\ \A n \in DOMAIN old \ {SecretName} :
                                  calls[i].definition.variables[n] = old[n]
                            /\ calls[i].definition.variables[SecretName]
                                   = [value |-> anaconda_token,
                                      is_secret |-> TRUE,
                                      allow_override |-> FALSE]

\* one definition whose variables hold an old secret and another variable
C16_Witness ==
    /\ "azure" \in completed
    /\ Len(before.azure) = 1
    /\ ~before.azure[1].variables.none
    /\ DOMAIN before.azure[1].variables.map = Names
    /\ Cardinality(CallsOf("azure", "update_definition")) = 1

\* C17: debug unset: whenever the call is marked failed a per-provider
\* message is recorded, so the error of the final check is never the
\* generic "Rotating the feedstock token in proviers ..." one
C17_NeverGeneric ==
    ~DebugSet =>
        /\ failed => (~err_msg.none /\ err_msg.text # <<>>)
        /\ (Done /\ result = "raised" /\ raised.origin = "final") =>
              /\ raised.text[1] # "Rotating the feedstock token in proviers for "
              /\ raised.text[1] = "Failed to rotate token for "

C17_Witness ==
    /\ ~DebugSet
    /\ pc = "final"
    /\ failed
    /\ ~err_msg.none

\* provider q holds the new secret under BINSTAR_TOKEN
HoldsNewSecret(q) ==
    CASE q = "circle" ->
            /\ SecretName \in DOMAIN circle_env
            /\ circle_env[SecretName] = anaconda_token
      [] q = "drone" ->
            /\ SecretName \in DOMAIN drone_secrets
            /\ drone_secrets[SecretName] = anaconda_token
      [] q = "travis" ->
            \E i \in 1..Len(travis_env_vars) :
                /\ travis_env_vars[i].name = SecretName
                /\ travis_env_vars[i].value = anaconda_token
      [] q = "azure" ->
            /\ Len(azure_defs) = 1
            /\ ~azure_defs[1].variables.none
            /\ SecretName \in DOMAIN azure_defs[1].variables.map
            /\ azure_defs[1].variables.map[SecretName].value = anaconda_token
      [] q = "appveyor" ->
            /\ "appveyor" \in DOMAIN appveyor_cfg
            /\ "secure" \in DOMAIN appveyor_cfg["appveyor"]
            /\ SecretName \in DOMAIN appveyor_cfg["appveyor"]["secure"]
            /\ appveyor_cfg["appveyor"]["secure"][SecretName] = Ciphertext

\* C18: debug unset: when the call has raised the error attributed to P,
\* the adapters that returned are exactly those of the enabled providers
\* before P, and each of these providers still holds the new secret
C18_NoRollback ==
    (Done /\ ~DebugSet /\ result = "raised" /\ AdapterFailed) =>
        /\ completed = {q \in Providers :
                           /\ args[q] # "False"
                           /\ Rank(q) < Rank(adapter_exc.origin)}
        /\ \A q \in completed : HoldsNewSecret(q)

\* appveyor fails after the four remote providers were rotated
C18_Witness ==
    /\ Done /\ ~DebugSet /\ result = "raised"
    /\ adapter_exc.origin = "appveyor"
    /\ completed = {"circle", "drone", "travis", "azure"}
    /\ \A q \in completed : HoldsNewSecret(q)

\* C19: appveyor: an encrypt call answered with a status other than 200
\* makes the adapter raise there, before the configuration is opened: the
\* configuration is as it was
C19_ConfigUntouchedOnFailure ==
    /\ (r # 0 /\ r # 200 /\ Len(calls) > 0
            /\ LastCall.prov = "appveyor" /\ LastCall.op = "encrypt") =>
          /\ RaisedAt("appveyor", "encrypt")
          /\ adapter_exc.type = "ValueError"
          /\ pc # "appveyor_config"
          /\ "appveyor" \notin completed
    /\ ("appveyor" \in before.seen /\ "appveyor" \notin completed) =>
          appveyor_cfg = before.appveyor

C19_Witness ==
    /\ Done
    /\ r = 201
    /\ RaisedAt("appveyor", "encrypt")
    /\ HadEntry("appveyor")
    /\ appveyor_cfg = before.appveyor
    /\ appveyor_cfg["appveyor"]["secure"][SecretName] = OldValue

\* the entries of an env-var listing that carry name n / another name
Named(evs, n) == {i \in 1..Len(evs) : evs[i].name = n}
OtherEntries(evs) == {evs[i] : i \in 1..Len(evs) \ Named(evs, SecretName)}

\* the name -> value store `new` is `old` with BINSTAR_TOKEN set to the
\* new secret
StoreRotated(old, new) ==
    /\ DOMAIN new = DOMAIN old \cup {SecretName}
    /\ new[SecretName] = anaconda_token
    /\ \A n \in DOMAIN old \ {SecretName} : new[n] = old[n]

\* C20: circle, drone, travis, the store holding at most one
\* BINSTAR_TOKEN entry beforehand: after the adapter has returned the
\* store holds exactly one entry named BINSTAR_TOKEN, with the new secret,
\* and the entries of other names are as they were
C20_StoreRotated ==
    /\ "circle" \in completed => StoreRotated(before.circle, circle_env)
    /\ "drone" \in completed => StoreRotated(before.drone, drone_secrets)
    /\ ("travis" \in completed
            /\ Cardinality(Named(before.travis, SecretName)) <= 1) =>
          /\ Cardinality(Named(travis_env_vars, SecretName)) = 1
          /\ \A i \in Named(travis_env_vars, SecretName) :
                travis_env_vars[i].value = anaconda_token
          /\ OtherEntries(travis_env_vars) = OtherEntries(before.travis)
          /\ Len(travis_env_vars)
                = Len(before.travis)
                    + (IF Named(before.travis, SecretName) = {} THEN 1 ELSE 0)

\* all three rotated an old secret kept next to another entry
C20_Witness ==
    /\ {"circle", "drone", "travis"} \subseteq completed
    /\ DOMAIN before.circle = Names
    /\ DOMAIN before.drone = Names
    /\ Len(before.travis) = 2
    /\ Cardinality(Named(before.travis, SecretName)) = 1
    /\ circle_env[SecretName] = anaconda_token
    /\ drone_secrets[SecretName] = anaconda_token

====
